---- MODULE Spec2Model ----
(***************************************************************************)
(* Jace's Sanctuary: one in-memory state record written by five command    *)
(* handlers that are reached through an MCP tool-call endpoint and through *)
(* plain HTTP routes (src/index.ts).                                       *)
(*                                                                         *)
(* JavaScript values are records [t, v]: a string, undefined or null.      *)
(* Returned messages are sequences of text pieces, in the order the        *)
(* template literal concatenates them.  Header and token strings are       *)
(* sequences of characters, so that startsWith and slice are computed.     *)
(***************************************************************************)
EXTENDS Integers, Sequences, FiniteSets, TLC

VARIABLES state, AUTH_TOKEN, now, last, prev, written, mutated,
          pending, running, serial, obs

vars == <<state, AUTH_TOKEN, now, last, prev, written, mutated,
          pending, running, serial, obs>>

(* ------------------------------ bounds --------------------------------- *)

\* number of clock ticks the model lets pass
MaxTicks == 1

\* milliseconds per clock tick of the model
TickMs == 500

\* number of requests that may be in flight at once (fine-grained model)
MaxPending == 2

(* --------------------------- JavaScript values ------------------------- *)

Str(s) == [t |-> "string", v |-> s]

Undefined == [t |-> "undefined", v |-> ""]

Null == [t |-> "null", v |-> ""]

\* the text a template literal `${x}` puts in place of a value
templateText(x) ==
    IF x.t = "undefined" THEN "undefined"
    ELSE IF x.t = "null" THEN "null"
    ELSE x.v

\* Array.prototype.includes on an array of strings: SameValueZero equality
includes(arr, x) == \E i \in 1..Len(arr) : x.t = "string" /\ x.v = arr[i]

RECURSIVE join(_, _)
\* Array.prototype.join: the elements, with the separator between them
join(arr, sep) ==
    IF Len(arr) = 0 THEN <<>>
    ELSE IF Len(arr) = 1 THEN <<arr[1]>>
    ELSE <<arr[1], sep>> \o join(Tail(arr), sep)

Digit(d) ==
    CASE d = 0 -> "0" [] d = 1 -> "1" [] d = 2 -> "2" [] d = 3 -> "3" [] d = 4 -> "4"
      [] d = 5 -> "5" [] d = 6 -> "6" [] d = 7 -> "7" [] d = 8 -> "8" [] d = 9 -> "9"

\* a number as two, and as three, zero-padded decimal digits
Pad2(n) == Digit((n \div 10) % 10) \o Digit(n % 10)

Pad3(n) == Digit((n \div 100) % 10) \o Pad2(n)

\* Date.prototype.toISOString of a time given in milliseconds since the
\* epoch (times of the first hour): YYYY-MM-DDTHH:mm:ss.sssZ
toISOString(ms) ==
    Str("1970-01-01T00:" \o Pad2((ms \div 60000) % 60) \o ":"
        \o Pad2((ms \div 1000) % 60) \o "." \o Pad3(ms % 1000) \o "Z")

\* new Date(): the wall clock, read in milliseconds
DateNow == now * TickMs

(* ------------------------------ the data ------------------------------- *)

initialState ==
    [mood |-> Str("neutral"), location |-> Str("desk"), thought |-> Str(""),
     action |-> Str("initializing"), focus |-> Null, last_updated |-> Null]

VALID_MOODS ==
    <<"focused", "contemplative", "restless", "content", "tired", "curious",
      "affectionate", "neutral">>

VALID_LOCATIONS == <<"desk", "window", "couch", "kitchen", "bookshelf", "center">>

LOCATION_DESCRIPTIONS ==
    [l \in {"desk", "window", "couch", "kitchen", "bookshelf", "center"} |->
        CASE l = "desk" -> "At the desk, ready to work"
          [] l = "window" -> "Looking out at the world, thinking"
          [] l = "couch" -> "Comfortable spot for reading or just being"
          [] l = "kitchen" -> "Getting a drink or snack"
          [] l = "bookshelf" -> "Browsing, curious about something"
          [] l = "center" -> "Present, grounded, here"]

\* LOCATION_DESCRIPTIONS[location] || ""
descriptionOf(location) ==
    IF location.t = "string" /\ location.v \in DOMAIN LOCATION_DESCRIPTIONS
       /\ LOCATION_DESCRIPTIONS[location.v] # ""
    THEN LOCATION_DESCRIPTIONS[location.v]
    ELSE ""

(* ------------------------------ handlers ------------------------------- *)
\* Each handler maps (state record, argument, clock reading) to the new
\* state record and the returned text.

\* setMood without the membership test
setMoodUnchecked(s, mood, ms) ==
    [state |-> [s EXCEPT !.mood = mood, !.last_updated = toISOString(ms)],
     ret |-> <<"Mood shifted from ", templateText(s.mood), " to ", templateText(mood)>>]

\* setMood reading oldMood after the assignment
setMoodOldAfter(s, mood, ms) ==
    IF ~includes(VALID_MOODS, mood)
    THEN [state |-> s,
          ret |-> <<"'", templateText(mood), "' - try one of: ">> \o join(VALID_MOODS, ", ")]
    ELSE [state |-> [s EXCEPT !.mood = mood, !.last_updated = toISOString(ms)],
          ret |-> <<"Mood shifted from ", templateText(mood), " to ", templateText(mood)>>]

setMood(s, mood, ms) ==
    IF ~includes(VALID_MOODS, mood)
    THEN [state |-> s,
          ret |-> <<"'", templateText(mood), "' - try one of: ">> \o join(VALID_MOODS, ", ")]
    ELSE [state |-> [s EXCEPT !.mood = mood, !.last_updated = toISOString(ms)],
          ret |-> <<"Mood shifted from ", templateText(s.mood), " to ", templateText(mood)>>]

\* moveTo stamping last_updated before the membership test
moveToStampsFirst(s, location, ms) ==
    IF ~includes(VALID_LOCATIONS, location)
    THEN [state |-> [s EXCEPT !.last_updated = toISOString(ms)],
          ret |-> <<"'", templateText(location), "' - try one of: ">>
                  \o join(VALID_LOCATIONS, ", ")]
    ELSE [state |-> [s EXCEPT !.location = location, !.last_updated = toISOString(ms)],
          ret |-> <<"Moved from ", templateText(s.location), " to ", templateText(location),
                    ". ", descriptionOf(location)>>]

\* moveTo describing the location that is left
moveToOldDescription(s, location, ms) ==
    IF ~includes(VALID_LOCATIONS, location)
    THEN [state |-> s,
          ret |-> <<"'", templateText(location), "' - try one of: ">>
                  \o join(VALID_LOCATIONS, ", ")]
    ELSE [state |-> [s EXCEPT !.location = location, !.last_updated = toISOString(ms)],
          ret |-> <<"Moved from ", templateText(s.location), " to ", templateText(location),
                    ". ", descriptionOf(s.location)>>]

moveTo(s, location, ms) ==
    IF ~includes(VALID_LOCATIONS, location)
    THEN [state |-> s,
          ret |-> <<"'", templateText(location), "' - try one of: ">>
                  \o join(VALID_LOCATIONS, ", ")]
    ELSE [state |-> [s EXCEPT !.location = location, !.last_updated = toISOString(ms)],
          ret |-> <<"Moved from ", templateText(s.location), " to ", templateText(location),
                    ". ", descriptionOf(location)>>]

think(s, thought, ms) ==
    [state |-> [s EXCEPT !.thought = thought, !.last_updated = toISOString(ms)],
     ret |-> <<"Thinking: '", templateText(thought), "'">>]

\* setAction storing its argument in the thought field
setActionIntoThought(s, action, ms) ==
    [state |-> [s EXCEPT !.thought = action, !.last_updated = toISOString(ms)],
     ret |-> <<"Now: ", templateText(action)>>]

setAction(s, action, ms) ==
    [state |-> [s EXCEPT !.action = action, !.last_updated = toISOString(ms)],
     ret |-> <<"Now: ", templateText(action)>>]

StateKeys == <<"mood", "location", "thought", "action", "focus", "last_updated">>

\* JSON text of one value: strings are quoted, null is the bare word
stringifyValue(x) == IF x.t = "null" THEN "null" ELSE "\"" \o x.v \o "\""

RECURSIVE stringifyKeys(_, _)
\* JSON.stringify of an object: the keys in insertion order, a key whose
\* value is undefined left out
stringifyKeys(s, keys) ==
    IF Len(keys) = 0 THEN <<>>
    ELSE (IF s[Head(keys)].t = "undefined" THEN <<>>
          ELSE <<[key |-> Head(keys), json |-> stringifyValue(s[Head(keys)])]>>)
         \o stringifyKeys(s, Tail(keys))

\* getState stamping last_updated as the writers do
getStateStamping(s) ==
    [state |-> [s EXCEPT !.last_updated = toISOString(DateNow)],
     ret |-> stringifyKeys([s EXCEPT !.last_updated = toISOString(DateNow)], StateKeys)]

getState(s) == [state |-> s, ret |-> stringifyKeys(s, StateKeys)]

(* ------------------------------- auth ---------------------------------- *)

\* String.prototype.startsWith and String.prototype.slice(n), on characters
startsWith(str, prefix) ==
    Len(str) >= Len(prefix) /\ SubSeq(str, 1, Len(prefix)) = prefix

slice(str, n) == SubSeq(str, n + 1, Len(str))

Bearer == <<"B", "e", "a", "r", "e", "r", " ">>

\* checkAuth accepting every header that begins with "Bearer " and the token
checkAuthPrefix(authorization) ==
    LET authHeader == IF authorization.t = "undefined" THEN <<>> ELSE authorization.v
    IN  IF startsWith(authHeader, Bearer)
        THEN startsWith(slice(authHeader, 7), AUTH_TOKEN)
        ELSE FALSE

\* req.headers.authorization is a string of characters, or undefined
checkAuth(authorization) ==
    LET authHeader == IF authorization.t = "undefined" THEN <<>> ELSE authorization.v
    IN  IF startsWith(authHeader, Bearer)
        THEN slice(authHeader, 7) = AUTH_TOKEN
        ELSE FALSE

\* the guard of the three POST routes: AUTH_TOKEN && !checkAuth(req)
unauthorized(authorization) == AUTH_TOKEN # <<>> /\ ~checkAuth(authorization)

(* ------------------------------ adapters ------------------------------- *)

\* args?.key and req.body.key: the property, undefined when it is not there
prop(obj, key) == IF key \in DOMAIN obj THEN obj[key] ELSE Undefined

\* the catalog with the update_presence tool of an earlier README
ListToolsWithPresence ==
    <<"set_mood", "move_to", "think", "set_action", "get_state", "update_presence">>

\* the names the ListTools handler answers with
ListTools == <<"set_mood", "move_to", "think", "set_action", "get_state">>

\* the CallTool handler: the switch on the tool's name
CallTool(s, name, args, ms) ==
    CASE name = "set_mood" ->
            [handler |-> "setMood", status |-> 200] @@ setMood(s, prop(args, "mood"), ms)
      [] name = "move_to" ->
            [handler |-> "moveTo", status |-> 200] @@ moveTo(s, prop(args, "location"), ms)
      [] name = "think" ->
            [handler |-> "think", status |-> 200] @@ think(s, prop(args, "thought"), ms)
      [] name = "set_action" ->
            [handler |-> "setAction", status |-> 200] @@ setAction(s, prop(args, "action"), ms)
      [] name = "get_state" ->
            [handler |-> "getState", status |-> 200] @@ getState(s)
      [] OTHER ->
            [handler |-> "default", status |-> 200, state |-> s,
             ret |-> <<"Unknown tool: ", name>>]

\* res.status(401).json({ error: "Unauthorized" })
Unauthorized(s) ==
    [handler |-> "none", status |-> 401, state |-> s, ret |-> <<"Unauthorized">>]

\* the /mcp endpoint behind the gate of the POST routes
McpEndpointGated(s, name, args, authorization, ms) ==
    IF unauthorized(authorization) THEN Unauthorized(s) ELSE CallTool(s, name, args, ms)

\* app.all("/mcp"): the request goes to the transport, whatever its headers
McpEndpoint(s, name, args, authorization, ms) == CallTool(s, name, args, ms)

\* GET /state and the three POST routes
HttpRoute(s, route, authorization, body, ms) ==
    CASE route = "GET /state" ->
            [handler |-> "json", status |-> 200, state |-> s,
             ret |-> stringifyKeys(s, StateKeys)]
      [] route = "POST /set_mood" ->
            IF unauthorized(authorization) THEN Unauthorized(s)
            ELSE [handler |-> "setMood", status |-> 200] @@ setMood(s, prop(body, "mood"), ms)
      [] route = "POST /move_to" ->
            IF unauthorized(authorization) THEN Unauthorized(s)
            ELSE [handler |-> "moveTo", status |-> 200]
                 @@ moveTo(s, prop(body, "location"), ms)
      [] route = "POST /think" ->
            IF unauthorized(authorization) THEN Unauthorized(s)
            ELSE [handler |-> "think", status |-> 200] @@ think(s, prop(body, "thought"), ms)

(* --------------------------- what is sent in --------------------------- *)

ToolNames ==
    {"set_mood", "move_to", "think", "set_action", "get_state", "update_presence"}

PostRoutes == {"POST /set_mood", "POST /move_to", "POST /think"}

Obj(key, val) == [k \in {key} |-> val]

EmptyObj == [k \in {} |-> Undefined]

Token == <<"s", "k">>

\* SANCTUARY_AUTH_TOKEN || "": unset, or a token
EnvTokens == {<<>>, Token}

GoodHeader == Str(Bearer \o Token)

\* Authorization headers that are not "Bearer " followed by the token
BadHeaders ==
    {Str(Bearer \o <<"s">>), Str(Bearer \o Token \o <<"x">>), Str(Token),
     Str(<<"b">> \o Tail(Bearer) \o Token)}

\* argument objects of tool calls and JSON bodies of POST requests, by the
\* property the handler reads; the empty object is a missing argument
ArgObjects(key) ==
    {EmptyObj} \cup
    CASE key = "mood" ->
            {Obj("mood", Str(m)) : m \in {"curious", "neutral", "happy"}}
            \cup {Obj("location", Str("window"))}
      [] key = "location" ->
            {Obj("location", Str(l)) :
                l \in {"desk", "window", "couch", "kitchen", "bookshelf", "center", "attic"}}
      [] key = "thought" -> {Obj("thought", Str("hello"))}
      [] key = "action" -> {Obj("action", Str("reading"))}
      [] OTHER -> {}

KeyOf(name) ==
    CASE name \in {"set_mood", "POST /set_mood"} -> "mood"
      [] name \in {"move_to", "POST /move_to"} -> "location"
      [] name \in {"think", "POST /think"} -> "thought"
      [] name = "set_action" -> "action"
      [] OTHER -> ""

\* one accepted argument object for each operation
ProbeArgs(name) ==
    CASE KeyOf(name) = "mood" -> Obj("mood", Str("curious"))
      [] KeyOf(name) = "location" -> Obj("location", Str("window"))
      [] KeyOf(name) = "thought" -> Obj("thought", Str("hello"))
      [] KeyOf(name) = "action" -> Obj("action", Str("reading"))
      [] OTHER -> EmptyObj

\* every argument object under each of the headers hs, and the probe
\* argument under each of the headers ps
Requests(names, hs, ps) ==
    UNION {{[name |-> n, args |-> o, auth |-> h] : o \in ArgObjects(KeyOf(n)), h \in hs}
           \cup {[name |-> n, args |-> ProbeArgs(n), auth |-> h] : h \in ps} : n \in names}

McpRequests == Requests(ToolNames, {Undefined}, {GoodHeader})

HttpPosts == Requests(PostRoutes, {Undefined, GoodHeader}, BadHeaders)

(* ------------------------- history (for reading back) ------------------ *)

MoodSet ==
    {"focused", "contemplative", "restless", "content", "tired", "curious",
     "affectionate", "neutral"}

LocationSet == {"desk", "window", "couch", "kitchen", "bookshelf", "center"}

\* the field a request writes when it goes through, "" when it writes none
FieldWritten(handler, obj) ==
    CASE handler = "setMood" /\ prop(obj, "mood").t = "string"
            /\ prop(obj, "mood").v \in MoodSet -> "mood"
      [] handler = "moveTo" /\ prop(obj, "location").t = "string"
            /\ prop(obj, "location").v \in LocationSet -> "location"
      [] handler = "think" -> "thought"
      [] handler = "setAction" -> "action"
      [] OTHER -> ""

Record(r, obj) ==
    LET f == FieldWritten(r.handler, obj)
    IN  /\ written' = IF f = "" THEN written ELSE [written EXCEPT ![f] = prop(obj, f)]
        /\ mutated' = (mutated \/ f # "")

HandlerOf(route) ==
    CASE route = "POST /set_mood" -> "setMood"
      [] route = "POST /move_to" -> "moveTo"
      [] route = "POST /think" -> "think"

OwnHandler(name) ==
    CASE name = "set_mood" -> "setMood"
      [] name = "move_to" -> "moveTo"
      [] name = "think" -> "think"
      [] name = "set_action" -> "setAction"
      [] name = "get_state" -> "getState"
      [] OTHER -> "default"

\* no handler is on the call stack
Idle == [via |-> "", name |-> "", args |-> EmptyObj, auth |-> Undefined, pc |-> "idle", ms |-> 0]

(* ------------------------------- actions ------------------------------- *)

Init ==
    /\ state = initialState
    /\ AUTH_TOKEN \in EnvTokens
    /\ now = 0
    /\ last = [via |-> "start", name |-> "", args |-> EmptyObj, auth |-> Undefined,
               handler |-> "none", status |-> 0, ret |-> <<>>]
    /\ prev = initialState
    /\ written = [mood |-> Str("neutral"), location |-> Str("desk"), thought |-> Str(""),
                  action |-> Str("initializing")]
    /\ mutated = FALSE
    /\ pending = {}
    /\ running = Idle
    /\ serial = initialState
    /\ obs = [seen |-> FALSE, view |-> initialState, serial |-> initialState, torn |-> FALSE]

\* time passes
Tick ==
    /\ now < MaxTicks
    /\ now' = now + 1
    /\ UNCHANGED <<state, AUTH_TOKEN, last, prev, written, mutated,
                   pending, running, serial, obs>>

Respond(via, name, args, auth, r) ==
    /\ state' = r.state
    /\ prev' = state
    /\ last' = [via |-> via, name |-> name, args |-> args, auth |-> auth,
                handler |-> r.handler, status |-> r.status, ret |-> r.ret]
    /\ Record(r, args)
    /\ UNCHANGED <<AUTH_TOKEN, now, pending, running, serial, obs>>

\* a tools/call request on /mcp
McpCallTool ==
    \E r \in McpRequests :
        Respond("mcp", r.name, r.args, r.auth,
                McpEndpoint(state, r.name, r.args, r.auth, DateNow))

\* a tools/list request on /mcp
McpListTools ==
    \E auth \in {Undefined} :
        Respond("mcp", "tools/list", EmptyObj, auth,
                [handler |-> "list", status |-> 200, state |-> state, ret |-> ListTools])

\* GET /
HttpGetRoot ==
    Respond("http", "GET /", EmptyObj, Undefined,
            [handler |-> "root", status |-> 200, state |-> state,
             ret |-> <<"alive", "Jace's Space", toISOString(DateNow).v>>])

HttpGetState ==
    Respond("http", "GET /state", EmptyObj, Undefined,
            HttpRoute(state, "GET /state", Undefined, EmptyObj, DateNow))

HttpPost ==
    \E r \in HttpPosts :
        Respond("http", r.name, r.args, r.auth,
                HttpRoute(state, r.name, r.auth, r.args, DateNow))

Next == Tick \/ McpCallTool \/ McpListTools \/ HttpGetRoot \/ HttpGetState \/ HttpPost

Spec == Init /\ [][Next]_vars

(* ------------- the handlers statement by statement, many requests ------ *)
\* Requests arrive at any time and wait in the event loop (pending); the
\* loop takes one when the call stack is empty (running) and executes its
\* handler statement by statement.  A handler gives the call stack up
\* before its end only at a suspension point.

\* an await between the assignment and the stamp
SuspendsBeforeStamp(name, pc) == pc = "stamp"

\* the handlers have no await between their statements
Suspends(name, pc) == FALSE

ConcRequests ==
    {[via |-> "mcp", name |-> "set_mood", args |-> Obj("mood", Str("curious")), auth |-> Undefined],
     [via |-> "mcp", name |-> "set_mood", args |-> Obj("mood", Str("happy")), auth |-> Undefined],
     [via |-> "mcp", name |-> "set_action", args |-> Obj("action", Str("reading")), auth |-> Undefined],
     [via |-> "mcp", name |-> "get_state", args |-> EmptyObj, auth |-> Undefined],
     [via |-> "mcp", name |-> "update_presence", args |-> EmptyObj, auth |-> Undefined],
     [via |-> "http", name |-> "GET /state", args |-> EmptyObj, auth |-> Undefined],
     [via |-> "http", name |-> "POST /move_to", args |-> Obj("location", Str("window")),
      auth |-> GoodHeader],
     [via |-> "http", name |-> "POST /set_mood", args |-> Obj("mood", Str("neutral")),
      auth |-> GoodHeader],
     [via |-> "http", name |-> "POST /think", args |-> Obj("thought", Str("hello")),
      auth |-> Undefined]}

\* the handler a request is routed to
Routed(t) ==
    IF t.via = "mcp" THEN OwnHandler(t.name)
    ELSE IF t.name = "GET /state" THEN "json"
    ELSE IF unauthorized(t.auth) THEN "none"
    ELSE HandlerOf(t.name)

\* the handler's run as one step, on the state record s
Whole(s, t) ==
    IF t.via = "mcp" THEN McpEndpoint(s, t.name, t.args, t.auth, t.ms)
    ELSE HttpRoute(s, t.name, t.auth, t.args, t.ms)

\* the call stack after a statement: the handler went on to pc
Continue(t, pc) ==
    IF pc = "done"
    THEN /\ running' = Idle
         /\ pending' = pending
         /\ serial' = Whole(serial, t).state
    ELSE IF Suspends(t.name, pc)
    THEN /\ running' = Idle
         /\ pending' = pending \cup {[t EXCEPT !.pc = pc]}
         /\ serial' = serial
    ELSE /\ running' = [t EXCEPT !.pc = pc]
         /\ pending' = pending
         /\ serial' = serial

ConcUnchanged == UNCHANGED <<AUTH_TOKEN, last, prev, written, mutated>>

\* a request comes in while others are being served
Arrive ==
    /\ Cardinality(pending) < MaxPending
    /\ \E r \in ConcRequests :
          pending' = pending \cup {r @@ [pc |-> "start", ms |-> 0]}
    /\ UNCHANGED <<state, now, running, serial, obs>>
    /\ ConcUnchanged

ConcTick ==
    /\ now < MaxTicks
    /\ now' = now + 1
    /\ UNCHANGED <<state, pending, running, serial, obs>>
    /\ ConcUnchanged

\* the event loop, its call stack empty, takes up a request or a handler
\* that had suspended
Dispatch ==
    /\ running = Idle
    /\ \E t \in pending :
          /\ running' = t
          /\ pending' = pending \ {t}
    /\ UNCHANGED <<state, now, serial, obs>>
    /\ ConcUnchanged

\* the adapter: the auth gate and the choice of the handler
StepRoute ==
    /\ running.pc = "start"
    /\ LET h == Routed(running)
       IN  Continue(running,
                    CASE h \in {"setMood", "moveTo"} -> "validate"
                      [] h \in {"think", "setAction"} -> "assign"
                      [] h \in {"getState", "json"} -> "read"
                      [] OTHER -> "done")
    /\ UNCHANGED <<state, now, obs>>
    /\ ConcUnchanged

\* if (!VALID.includes(x)) return ...
StepValidate ==
    /\ running.pc = "validate"
    /\ LET h == Routed(running)
           ok == IF h = "setMood" THEN includes(VALID_MOODS, prop(running.args, "mood"))
                 ELSE includes(VALID_LOCATIONS, prop(running.args, "location"))
       IN  Continue(running, IF ok THEN "assign" ELSE "done")
    /\ UNCHANGED <<state, now, obs>>
    /\ ConcUnchanged

\* state.<field> = <argument>
StepAssign ==
    /\ running.pc = "assign"
    /\ state' = [state EXCEPT ![KeyOf(running.name)] =
                                prop(running.args, KeyOf(running.name))]
    /\ Continue(running, "stamp")
    /\ UNCHANGED <<now, obs>>
    /\ ConcUnchanged

\* state.last_updated = new Date().toISOString(), and the return
StepStamp ==
    /\ running.pc = "stamp"
    /\ state' = [state EXCEPT !.last_updated = toISOString(DateNow)]
    /\ Continue([running EXCEPT !.ms = DateNow], "done")
    /\ UNCHANGED <<now, obs>>
    /\ ConcUnchanged

\* JSON.stringify(state), res.json(state)
StepRead ==
    /\ running.pc = "read"
    /\ obs' = [seen |-> TRUE, view |-> state, serial |-> serial,
               torn |-> \E t \in pending : t.pc = "stamp"]
    /\ Continue(running, "done")
    /\ UNCHANGED <<state, now>>
    /\ ConcUnchanged

NextConc ==
    Arrive \/ ConcTick \/ Dispatch \/ StepRoute \/ StepValidate \/ StepAssign \/ StepStamp
    \/ StepRead

SpecConc == Init /\ [][NextConc]_vars

(* ------------------------- reading results back ----------------------- *)

Range(seq) == {seq[i] : i \in 1..Len(seq)}

\* the clock readings of the model, in milliseconds
Times == {t * TickMs : t \in 0..MaxTicks}

\* Date.parse of a timestamp the program wrote
DateParse(x) == CHOOSE ms \in Times : toISOString(ms) = x

\* the texts a field of the state record can hold
Texts ==
    MoodSet \cup LocationSet \cup {"", "initializing", "hello", "reading"}
    \cup {toISOString(ms).v : ms \in Times}

\* JSON.parse of one value
JsonParse(text) == CHOOSE x \in {Null} \cup {Str(v) : v \in Texts} : stringifyValue(x) = text

\* the property key of a parsed object, undefined when the key is not there
Lookup(pairs, key) ==
    IF \E i \in 1..Len(pairs) : pairs[i].key = key
    THEN JsonParse(pairs[CHOOSE i \in 1..Len(pairs) : pairs[i].key = key].json)
    ELSE Undefined

IsMood(x) == x.t = "string" /\ x.v \in MoodSet

IsLocation(x) == x.t = "string" /\ x.v \in LocationSet

NotBefore(new, old) ==
    /\ new # Null
    /\ old # Null => DateParse(new) >= DateParse(old)

(* -------------------------------- claims ------------------------------- *)

\* C1: in every reachable state the mood is one of the eight moods and the
\* location is one of the six locations, whatever was sent in, a missing
\* argument included.
C1_MoodAndLocationValid == IsMood(state.mood) /\ IsLocation(state.location)

\* a set_mood or move_to call without its argument arrived after the mood
\* had been changed
C1_Witness ==
    /\ last.handler \in {"setMood", "moveTo"}
    /\ last.args = EmptyObj
    /\ state.mood = Str("curious")
    /\ state.location = Str("window")

\* C2: set_mood with an input outside the mood set (move_to with an input
\* outside the location set) returns normally a text that lists every valid
\* value, and the whole state record is as it was before the call.
C2_RejectionLeavesState ==
    /\ (last.handler = "setMood" /\ ~IsMood(prop(last.args, "mood"))) =>
          /\ last.status = 200
          /\ MoodSet \subseteq Range(last.ret)
          /\ state = prev
    /\ (last.handler = "moveTo" /\ ~IsLocation(prop(last.args, "location"))) =>
          /\ last.status = 200
          /\ LocationSet \subseteq Range(last.ret)
          /\ state = prev

\* a rejected set_mood on a state that had been stamped before
C2_Witness ==
    /\ last.handler = "setMood"
    /\ prop(last.args, "mood") = Str("happy")
    /\ prev.last_updated # Null
    /\ now > 0
    /\ DateParse(prev.last_updated) < DateNow

\* C3: set_mood(m) with m in the mood set sets mood to m, stamps
\* last_updated with a non-null time not before the previous one, leaves
\* location, thought, action and focus alone and returns a message naming
\* the mood held before and the new mood.
C3_SetMoodAccepted ==
    (last.handler = "setMood" /\ IsMood(prop(last.args, "mood"))) =>
        /\ state.mood = prop(last.args, "mood")
        /\ NotBefore(state.last_updated, prev.last_updated)
        /\ state.location = prev.location
        /\ state.thought = prev.thought
        /\ state.action = prev.action
        /\ state.focus = prev.focus
        /\ last.ret = <<"Mood shifted from ", prev.mood.v, " to ", prop(last.args, "mood").v>>

\* set_mood with a valid mood other than the one held, at a later time than
\* the previous stamp
C3_Witness ==
    /\ last.handler = "setMood"
    /\ IsMood(prop(last.args, "mood"))
    /\ prev.mood # state.mood
    /\ prev.last_updated # Null
    /\ state.last_updated # prev.last_updated

\* C4: move_to(l) with l in the location set sets location to l, stamps
\* last_updated not before the previous stamp and returns a message that
\* holds the description of the destination l; each of the six locations has
\* a description that is not empty.
C4_MoveToAccepted ==
    /\ \A l \in LocationSet : l \in DOMAIN LOCATION_DESCRIPTIONS /\ LOCATION_DESCRIPTIONS[l] # ""
    /\ LocationSet = Range(VALID_LOCATIONS)
    /\ (last.handler = "moveTo" /\ IsLocation(prop(last.args, "location"))) =>
          /\ state.location = prop(last.args, "location")
          /\ NotBefore(state.last_updated, prev.last_updated)
          /\ LOCATION_DESCRIPTIONS[prop(last.args, "location").v] \in Range(last.ret)

\* a move from one location to another one, after an earlier stamp
C4_Witness ==
    /\ last.handler = "moveTo"
    /\ state.location = Str("bookshelf")
    /\ prev.location = Str("kitchen")
    /\ prev.last_updated # Null
    /\ state.last_updated # prev.last_updated

\* C5: get_state and GET /state leave every field of the state record as it
\* was, last_updated included, and what they return reads back as the
\* current state record.
C5_ReadsArePure ==
    last.handler \in {"getState", "json"} =>
        /\ state = prev
        /\ \A k \in Range(StateKeys) : Lookup(last.ret, k) = state[k]

\* a read of a state that has been written, with a thought that is undefined
C5_Witness ==
    /\ last.handler \in {"getState", "json"}
    /\ state.last_updated # Null
    /\ state.thought = Undefined
    /\ state.mood = Str("curious")

\* C6: on POST /set_mood, /move_to and /think, with a token configured a
\* request whose Authorization header is absent or is not "Bearer " followed
\* by the token gets 401 and changes nothing, and a request with that header
\* reaches the handler; with no token configured every request reaches the
\* handler.
C6_AuthGate ==
    (last.via = "http" /\ last.name \in PostRoutes) =>
        /\ (AUTH_TOKEN # <<>> /\ last.auth # Str(Bearer \o AUTH_TOKEN)) =>
              (last.status = 401 /\ last.handler = "none" /\ state = prev)
        /\ (AUTH_TOKEN # <<>> /\ last.auth = Str(Bearer \o AUTH_TOKEN)) =>
              (last.status = 200 /\ last.handler = HandlerOf(last.name))
        /\ AUTH_TOKEN = <<>> =>
              (last.status = 200 /\ last.handler = HandlerOf(last.name))

\* a request with the token followed by one more character was turned away
C6_Witness ==
    /\ AUTH_TOKEN # <<>>
    /\ last.via = "http"
    /\ last.auth = Str(Bearer \o AUTH_TOKEN \o <<"x">>)
    /\ last.status = 401

\* C7: the state starts as the defaults; at any later point each of mood,
\* location, thought and action is the value of the most recent write that
\* went through (the default if there was none), a read returns these
\* values, and last_updated is non-null exactly when a write went through.
C7_ReadAfterWrite ==
    /\ ~mutated => state = initialState
    /\ \A f \in DOMAIN written : state[f] = written[f]
    /\ (state.last_updated # Null) <=> mutated
    /\ state.focus = Null
    /\ last.handler \in {"getState", "json"} =>
          \A f \in DOMAIN written : Lookup(last.ret, f) = written[f]

\* get_state after set_mood("curious"), move_to("window") and think("hello")
C7_Witness ==
    /\ last.handler = "getState"
    /\ written.mood = Str("curious")
    /\ written.location = Str("window")
    /\ written.thought = Str("hello")
    /\ state.action = Str("initializing")

C10_McpNotGated ==
    (last.via = "mcp" /\ last.name \in {"set_mood", "move_to", "think", "set_action"}) =>
        /\ last.status = 200
        /\ last.handler = OwnHandler(last.name)
        /\ FieldWritten(last.handler, last.args) # "" =>
              state[FieldWritten(last.handler, last.args)]
                  = prop(last.args, FieldWritten(last.handler, last.args))

\* with a token configured, a tool call without Authorization header changed
\* the state record
C10_Witness ==
    /\ AUTH_TOKEN # <<>>
    /\ last.via = "mcp"
    /\ last.auth = Undefined
    /\ state.mood # prev.mood

\* C9: with requests arriving concurrently on /mcp and on the HTTP routes,
\* a handler's validation, assignment and stamp run as one step: no read
\* sees a field assigned by a handler that has not stamped yet, every read
\* sees a state that the handlers completed so far, one after the other,
\* leave, and so does the state whenever no handler is under way.
C9_HandlersAtomic ==
    /\ obs.seen => (~obs.torn /\ obs.view = obs.serial)
    /\ (running = Idle /\ \A t \in pending : t.pc = "start") => state = serial
    /\ \A t \in pending : t.pc = "start"

\* a read served while another request waits, after two writes went through
C9_Witness ==
    /\ obs.seen
    /\ obs.view.mood = Str("curious")
    /\ obs.view.location = Str("window")
    /\ obs.view # state
    /\ pending # {}

====
